---- MODULE Spec2Model ----
(***************************************************************************)
(* A model of sephora_analysis.py: the SephoraAnalyzer class (the catalog  *)
(* it builds and the six analysis methods) and main(), the linear pipeline *)
(* that runs them.                                                         *)
(*                                                                         *)
(* Conventions.                                                            *)
(*  - A rating is held in tenths of a star (4.5 stars is 45), a price in   *)
(*    whole dollars, as in the embedded table.                             *)
(*  - value_score = rating / (price / 10) is the exact fraction            *)
(*    rating-in-tenths / price, held as [num, den]; den = 0 is the float   *)
(*    infinity (or NaN) that a price of 0 produces.                        *)
(*  - A mean is held as [sum, count]; count = 0 is the NaN pandas returns  *)
(*    for the mean of an empty selection.                                  *)
(*  - A row of the DataFrame is identified by its position (1-based).      *)
(***************************************************************************)
EXTENDS Integers, Sequences, FiniteSets

VARIABLES input, data, constructed, pc, results, trace, failed

vars == <<input, data, constructed, pc, results, trace, failed>>

(***************************************************************************)
(* Bounds of the model.                                                    *)
(***************************************************************************)
\* longest generic catalog handed to the pipeline and to the free caller
MaxLen == 3
\* longest catalog handed to top_products (more rows than the five it keeps)
MaxTopLen == 6
\* largest price handed to the price bucketing (beyond the last bin edge)
MaxPrice == 201

NaN == "NaN"
None == "none"

(***************************************************************************)
(* The embedded table of create_sample_data.                               *)
(***************************************************************************)
product_name ==
  << "Fenty Beauty Foundation", "Fenty Beauty Lipgloss", "Fenty Beauty Highlighter",
     "Rare Beauty Blush", "Rare Beauty Concealer", "Charlotte Tilbury Mascara",
     "Charlotte Tilbury Foundation", "Dior Lipstick", "Dior Foundation",
     "The Ordinary Serum", "The Ordinary Moisturizer", "The Ordinary Retinol",
     "Drunk Elephant Moisturizer", "Urban Decay Eyeshadow", "Urban Decay Primer",
     "Huda Beauty Palette", "Huda Beauty Lipstick", "MAC Lipstick",
     "MAC Foundation", "MAC Powder", "NARS Blush", "NARS Concealer",
     "Too Faced Primer", "Too Faced Mascara", "Benefit Brow Pencil",
     "Tarte Concealer", "Tarte Foundation", "Anastasia Brow Gel",
     "Anastasia Palette", "La Mer Cream", "Tatcha Cleanser",
     "YSL Lipstick", "Clinique Moisturizer", "Hourglass Foundation",
     "Pat McGrath Lipstick", "Laura Mercier Powder", "Bobbi Brown Concealer",
     "Tom Ford Lipstick", "Estee Lauder Serum", "NARS Lipstick" >>

brand ==
  << "Fenty Beauty", "Fenty Beauty", "Fenty Beauty",
     "Rare Beauty", "Rare Beauty", "Charlotte Tilbury",
     "Charlotte Tilbury", "Dior", "Dior",
     "The Ordinary", "The Ordinary", "The Ordinary",
     "Drunk Elephant", "Urban Decay", "Urban Decay",
     "Huda Beauty", "Huda Beauty", "MAC",
     "MAC", "MAC", "NARS", "NARS",
     "Too Faced", "Too Faced", "Benefit",
     "Tarte", "Tarte", "Anastasia",
     "Anastasia", "La Mer", "Tatcha",
     "YSL", "Clinique", "Hourglass",
     "Pat McGrath", "Laura Mercier", "Bobbi Brown",
     "Tom Ford", "Estee Lauder", "NARS" >>

category ==
  << "Face", "Lips", "Face",
     "Face", "Face", "Eyes", "Face", "Lips", "Face",
     "Skincare", "Skincare", "Skincare",
     "Skincare", "Eyes", "Face",
     "Eyes", "Lips", "Lips",
     "Face", "Face", "Face", "Face",
     "Face", "Eyes", "Eyes",
     "Face", "Face", "Eyes",
     "Eyes", "Skincare", "Skincare",
     "Lips", "Skincare", "Face",
     "Lips", "Face", "Face",
     "Lips", "Skincare", "Lips" >>

price ==
  << 38, 20, 32, 23, 27, 29, 44, 42, 52,
     7, 9, 12, 68, 54, 35, 67, 29, 20,
     39, 32, 32, 31, 34, 26, 24,
     29, 41, 23, 49, 185, 35,
     39, 31, 49, 40, 41, 32, 57, 78, 28 >>

\* in tenths of a star
rating ==
  << 45, 44, 46, 47, 45, 43, 45, 46, 44,
     44, 43, 45, 42, 45, 44, 48, 43, 44,
     45, 44, 46, 45, 43, 44, 45,
     44, 45, 47, 46, 41, 45,
     45, 43, 46, 44, 45, 45, 43, 42, 46 >>

num_reviews ==
  << 15234, 9845, 7651, 8901, 6234, 6543, 8932, 4231, 5678,
     12045, 8934, 9123, 5678, 9876, 7234, 11234, 5432, 7890,
     10234, 6543, 6789, 7456, 5432, 6789, 8765,
     9012, 7890, 10123, 8456, 3456, 7654,
     5678, 6543, 8901, 7234, 6543, 7890, 4567, 5678, 5234 >>

\* the products dictionary: one record per position of the six lists
products ==
  [i \in 1..Len(product_name) |->
     [product_name |-> product_name[i], brand |-> brand[i],
      category |-> category[i], price |-> price[i],
      rating |-> rating[i], num_reviews |-> num_reviews[i]]]

(***************************************************************************)
(* Derived columns.                                                        *)
(***************************************************************************)
bins == <<0, 20, 40, 70, 200>>
labels == <<"Budget", "Mid-Range", "Premium", "Luxury">>

\* pd.cut with right=False: every bin closed on the left, open on the right
cut_left_closed(x) ==
  IF \E i \in 1..Len(labels) : bins[i] <= x /\ x < bins[i + 1]
  THEN labels[CHOOSE i \in 1..Len(labels) : bins[i] <= x /\ x < bins[i + 1]]
  ELSE NaN

\* pd.cut(x, bins, labels) with the default right=True: bin i is
\* (bins[i], bins[i+1]]; a value in no bin is NaN (a missing category)
cut(x) ==
  IF \E i \in 1..Len(labels) : bins[i] < x /\ x <= bins[i + 1]
  THEN labels[CHOOSE i \in 1..Len(labels) : bins[i] < x /\ x <= bins[i + 1]]
  ELSE NaN

\* df['rating'] / (df['price'] * 10): the price multiplied, not divided, by 10
value_score_times_ten(row) == [num |-> row.rating, den |-> row.price * 100]

\* df['rating'] / (df['price'] / 10), as an exact fraction
value_score(row) == [num |-> row.rating, den |-> row.price]

\* the DataFrame of create_sample_data, built from a products table
create_sample_data(prods) ==
  [i \in 1..Len(prods) |->
     [product_name |-> prods[i].product_name, brand |-> prods[i].brand,
      category |-> prods[i].category, price |-> prods[i].price,
      rating |-> prods[i].rating, num_reviews |-> prods[i].num_reviews,
      value_score |-> value_score(prods[i]),
      price_range |-> cut(prods[i].price)]]

(***************************************************************************)
(* Series helpers (pandas / numpy semantics on integer columns).           *)
(***************************************************************************)
column(d, c) == [i \in 1..Len(d) |-> d[i][c]]

RECURSIVE seq_sum(_)
seq_sum(s) == IF Len(s) = 0 THEN 0 ELSE s[1] + seq_sum(Tail(s))

\* Series.mean(): NaN (count 0) on an empty series
mean(s) == [sum |-> seq_sum(s), count |-> Len(s)]

\* Series.min() / Series.max() of a non-empty series
series_min(s) == CHOOSE v \in {s[i] : i \in 1..Len(s)} : \A j \in 1..Len(s) : v <= s[j]
series_max(s) == CHOOSE v \in {s[i] : i \in 1..Len(s)} : \A j \in 1..Len(s) : v >= s[j]

\* the k-th smallest value of a non-empty series
kth_smallest(s, k) ==
  CHOOSE v \in {s[i] : i \in 1..Len(s)} :
    /\ Cardinality({i \in 1..Len(s) : s[i] < v}) < k
    /\ Cardinality({i \in 1..Len(s) : s[i] <= v}) >= k

\* Series.median() of a non-empty series, doubled to stay an integer
median_x2(s) ==
  IF Len(s) % 2 = 1
  THEN 2 * kth_smallest(s, (Len(s) + 1) \div 2)
  ELSE kth_smallest(s, Len(s) \div 2) + kth_smallest(s, Len(s) \div 2 + 1)

\* x > y in column c; value_score fractions compare by cross-multiplication
greater(c, x, y) ==
  IF c = "value_score" THEN x.num * y.den > y.num * x.den ELSE x > y

\* Series.idxmax(): the label of the first occurrence of the maximum
\* (raises ValueError on an empty series: callers test Len(d) = 0 first)
idxmax(d, c) ==
  CHOOSE i \in 1..Len(d) :
    /\ \A j \in 1..Len(d) : ~greater(c, d[j][c], d[i][c])
    /\ \A j \in 1..(i - 1) : greater(c, d[i][c], d[j][c])

\* nlargest with keep='last': among equal values the later row comes first
nlargest_keep_last(d, n, c) ==
  LET before(i, j) == \/ greater(c, d[i][c], d[j][c])
                      \/ (~greater(c, d[j][c], d[i][c]) /\ i > j)
      pos(i) == 1 + Cardinality({j \in 1..Len(d) : j # i /\ before(j, i)})
      m == IF n < Len(d) THEN n ELSE Len(d)
  IN [k \in 1..m |-> CHOOSE i \in 1..Len(d) : pos(i) = k]

\* DataFrame.nlargest(n, c) with the default keep='first' ("prioritize the
\* first occurrences"): the rows in descending order of c, equal values in
\* row order, cut to the first n. With more than n rows pandas selects by a
\* mergesort of the candidates; with at most n rows it sorts the whole
\* column in descending order, which the standard build does by insertion
\* (rows of equal value keep their order). The result is the sequence of
\* row positions.
nlargest(d, n, c) ==
  LET before(i, j) == \/ greater(c, d[i][c], d[j][c])
                      \/ (~greater(c, d[j][c], d[i][c]) /\ i < j)
      pos(i) == 1 + Cardinality({j \in 1..Len(d) : j # i /\ before(j, i)})
      m == IF n < Len(d) THEN n ELSE Len(d)
  IN [k \in 1..m |-> CHOOSE i \in 1..Len(d) : pos(i) = k]

\* a / b < c / d for a, c >= 0 and b, d > 0, without forming the products
RECURSIVE frac_less(_, _, _, _)
frac_less(a, b, c, d) ==
  LET q1 == a \div b
      q2 == c \div d
      r1 == a % b
      r2 == c % d
  IN IF q1 # q2 THEN q1 < q2
     ELSE IF r2 = 0 THEN FALSE
     ELSE IF r1 = 0 THEN TRUE
     ELSE frac_less(d, r2, b, r1)

abs(x) == IF x < 0 THEN -x ELSE x

\* Series.corr (Pearson) of columns cx and cy, as the three integers
\*   cov = n*Sxy - Sx*Sy, vx = n*Sxx - Sx^2, vy = n*Syy - Sy^2,
\* so that corr = cov / sqrt(vx * vy); it is NaN when vx = 0 or vy = 0
\* (fewer than two rows, or a constant column)
corr(d, cx, cy) ==
  LET n == Len(d)
      x == column(d, cx)
      y == column(d, cy)
      sx == seq_sum(x)
      sy == seq_sum(y)
      cv == n * seq_sum([i \in 1..n |-> x[i] * y[i]]) - sx * sy
      vx == n * seq_sum([i \in 1..n |-> x[i] * x[i]]) - sx * sx
      vy == n * seq_sum([i \in 1..n |-> y[i] * y[i]]) - sy * sy
  IN [cov |-> cv, vx |-> vx, vy |-> vy, defined |-> vx > 0 /\ vy > 0]

\* abs(correlation) < num / den, for a defined correlation:
\* den^2 * cov^2 < num^2 * vx * vy
abs_corr_less(r, num, den) ==
  \/ r.cov = 0
  \/ frac_less(den * abs(r.cov), num * r.vx, num * r.vy, den * abs(r.cov))

(***************************************************************************)
(* The analysis methods. Each takes self.data and returns                  *)
(*   self_data : self.data when the method returns or raises,              *)
(*   raised    : the exception that leaves the method, or None,            *)
(*   report    : what the method computed (and printed or saved).          *)
(***************************************************************************)
\* the distinct categories of a frame
categories(d) == {d[i].category : i \in 1..Len(d)}

\* the position of the first row of category c
first_row(d, c) == CHOOSE i \in 1..Len(d) :
  d[i].category = c /\ \A j \in 1..(i - 1) : d[j].category # c

\* groupby() sorts its keys: the categories in ascending (alphabetical) order
sorted_categories == <<"Eyes", "Face", "Lips", "Skincare">>
sort_position(c) == CHOOSE k \in 1..Len(sorted_categories) : sorted_categories[k] = c

\* a.sum / a.count > b.sum / b.count, for two defined means
mean_greater(a, b) == a.sum * b.count > b.sum * a.count

summary_statistics(d) ==
  IF Len(d) = 0
  THEN \* the statistics print as 0 or nan; idxmax() of the empty price
       \* column raises ValueError
       [self_data |-> d, raised |-> "ValueError",
        report |-> [count |-> 0,
                    price_mean |-> mean(column(d, "price")),
                    rating_mean |-> mean(column(d, "rating")),
                    reviews_sum |-> 0,
                    reviews_mean |-> mean(column(d, "num_reviews"))]]
  ELSE [self_data |-> d, raised |-> None,
        report |-> [count |-> Len(d),
                    price_mean |-> mean(column(d, "price")),
                    price_median_x2 |-> median_x2(column(d, "price")),
                    price_min |-> series_min(column(d, "price")),
                    price_max |-> series_max(column(d, "price")),
                    rating_mean |-> mean(column(d, "rating")),
                    rating_median_x2 |-> median_x2(column(d, "rating")),
                    rating_min |-> series_min(column(d, "rating")),
                    rating_max |-> series_max(column(d, "rating")),
                    reviews_sum |-> seq_sum(column(d, "num_reviews")),
                    reviews_mean |-> mean(column(d, "num_reviews")),
                    most_expensive |-> d[idxmax(d, "price")],
                    best_value |-> d[idxmax(d, "value_score")]]]

category_analysis(d) ==
  LET group(c) == SelectSeq(d, LAMBDA r : r.category = c)
      category_stats ==
        [c \in categories(d) |->
           [count |-> Len(group(c)),
            price_mean |-> mean(column(group(c), "price")),
            price_min |-> series_min(column(group(c), "price")),
            price_max |-> series_max(column(group(c), "price")),
            rating_mean |-> mean(column(group(c), "rating")),
            reviews_sum |-> seq_sum(column(group(c), "num_reviews"))]]
      \* value_counts(): descending counts, equal counts in order of first
      \* appearance; idxmax() takes the first maximum
      most_products ==
        CHOOSE c \in categories(d) : \A o \in categories(d) \ {c} :
          \/ Len(group(c)) > Len(group(o))
          \/ Len(group(c)) = Len(group(o)) /\ first_row(d, c) < first_row(d, o)
      \* groupby('category')['rating'].mean(): keys in sorted order;
      \* idxmax() takes the first maximum
      highest_rated ==
        CHOOSE c \in categories(d) : \A o \in categories(d) \ {c} :
          \/ mean_greater(category_stats[c].rating_mean, category_stats[o].rating_mean)
          \/ /\ ~mean_greater(category_stats[o].rating_mean, category_stats[c].rating_mean)
             /\ sort_position(c) < sort_position(o)
  IN IF Len(d) = 0
     THEN \* the (empty) statistics print; idxmax() of the empty
          \* value_counts() raises ValueError
          [self_data |-> d, raised |-> "ValueError",
           report |-> [category_stats |-> category_stats]]
     ELSE [self_data |-> d, raised |-> None,
           report |-> [category_stats |-> category_stats,
                       most_products |-> most_products,
                       most_products_count |-> Len(group(most_products)),
                       highest_rated |-> highest_rated,
                       highest_rated_mean |-> category_stats[highest_rated].rating_mean]]

price_analysis(d) ==
  LET \* value_counts().sort_index() of the categorical column: one entry per
      \* label, in label order; NaN rows are not counted
      price_dist ==
        [k \in 1..Len(labels) |->
           [range_name |-> labels[k],
            count |-> Len(SelectSeq(d, LAMBDA r : r.price_range = labels[k])),
            \* (count / len(self.data)) * 100, NaN when the frame is empty
            percentage |-> [num |-> 100 * Len(SelectSeq(d, LAMBDA r : r.price_range = labels[k])),
                            den |-> Len(d)]]]
      correlation == corr(d, "price", "rating")
  IN [self_data |-> d, raised |-> None,
      report |-> [price_dist |-> price_dist,
                  correlation |-> correlation,
                  \* the only verdict printed: abs(correlation) < 0.3
                  \* (a comparison with NaN is False)
                  verdict |-> IF correlation.defined /\ abs_corr_less(correlation, 3, 10)
                              THEN "weak" ELSE None]]

\* self.data.sort_values(c, ascending=False, inplace=True): the frame itself
\* is put in descending order of c
sort_values_inplace(d, c) ==
  LET order == nlargest(d, Len(d), c) IN [k \in 1..Len(d) |-> d[order[k]]]

\* the n of the three nlargest calls
top_n == 5

\* top_products sorting self.data in place before taking the first rows
top_products_inplace(d) ==
  [self_data |-> sort_values_inplace(d, "rating"), raised |-> None,
   report |-> [top_rated |-> nlargest(d, top_n, "rating"),
               most_reviewed |-> nlargest(d, top_n, "num_reviews"),
               best_value |-> nlargest(d, top_n, "value_score")]]

top_products(d) ==
  [self_data |-> d, raised |-> None,
   report |-> [top_rated |-> nlargest(d, top_n, "rating"),
               most_reviewed |-> nlargest(d, top_n, "num_reviews"),
               best_value |-> nlargest(d, top_n, "value_score")]]

makeup_categories == {"Face", "Eyes", "Lips"}

\* Series.mode()[0] of the category column of a non-empty frame: the most
\* frequent category, the first in sorted order among equally frequent ones
mode(d) ==
  LET n(c) == Len(SelectSeq(d, LAMBDA r : r.category = c))
  IN CHOOSE c \in categories(d) : \A o \in categories(d) \ {c} :
       n(c) > n(o) \/ (n(c) = n(o) /\ sort_position(c) < sort_position(o))

generate_insights(d) ==
  LET expensive == SelectSeq(d, LAMBDA r : r.price > 50)
      affordable == SelectSeq(d, LAMBDA r : r.price <= 30)
      skincare_avg == mean(column(SelectSeq(d, LAMBDA r : r.category = "Skincare"), "price"))
      makeup_avg == mean(column(SelectSeq(d, LAMBDA r : r.category \in makeup_categories), "price"))
      sweet_spot == SelectSeq(d, LAMBDA r : r.price >= 20 /\ r.price <= 40)
      high_rated == SelectSeq(d, LAMBDA r : r.rating >= 45)
      insights_1_2 ==
        [expensive_avg_rating |-> mean(column(expensive, "rating")),
         affordable_avg_rating |-> mean(column(affordable, "rating")),
         skincare_avg |-> skincare_avg,
         makeup_avg |-> makeup_avg,
         \* a comparison with NaN is False
         higher |-> IF skincare_avg.count > 0 /\ makeup_avg.count > 0
                       /\ mean_greater(skincare_avg, makeup_avg)
                    THEN "Skincare" ELSE "Makeup"]
      insight_3 ==
        [sweet_spot_count |-> Len(sweet_spot),
         sweet_spot_percentage |-> [num |-> 100 * Len(sweet_spot), den |-> Len(d)],
         sweet_spot_rating |-> mean(column(sweet_spot, "rating"))]
      insight_4 ==
        [high_rated_count |-> Len(high_rated),
         high_rated_price |-> mean(column(high_rated, "price"))]
  IN IF Len(d) = 0
     THEN \* len(sweet_spot) / len(self.data) divides two Python ints
          [self_data |-> d, raised |-> "ZeroDivisionError",
           report |-> [insights_1_2 |-> insights_1_2]]
     ELSE IF Len(high_rated) = 0
     THEN \* mode() of the empty selection is empty: [0] raises KeyError
          [self_data |-> d, raised |-> "KeyError",
           report |-> [insights_1_2 |-> insights_1_2, insight_3 |-> insight_3,
                       insight_4 |-> insight_4]]
     ELSE [self_data |-> d, raised |-> None,
           report |-> [insights_1_2 |-> insights_1_2, insight_3 |-> insight_3,
                       insight_4 |-> insight_4,
                       most_common_category |-> mode(high_rated)]]

\* the files of the five plt.savefig calls, in order
chart_files ==
  << "sephora_price_by_category.png", "sephora_rating_vs_price.png",
     "sephora_price_distribution.png", "sephora_top_brands.png",
     "sephora_category_heatmap.png" >>

visualize_data(d) ==
  IF Len(d) = 0
  THEN \* the bar plot of the empty category means raises in pandas' plotting
       \* (TypeError or IndexError, by version) before any file is saved
       [self_data |-> d, raised |-> "PlotError", report |-> [saved |-> <<>>]]
  ELSE [self_data |-> d, raised |-> None, report |-> [saved |-> chart_files]]

(***************************************************************************)
(* The state machine.                                                      *)
(*   input       the products table create_sample_data builds the frame of *)
(*   data        self.data                                                 *)
(*   constructed how many times SephoraAnalyzer() has run                  *)
(*   pc          main's position: "start", the method about to be called,  *)
(*               "complete" (the closing prints), "done", "aborted" (an    *)
(*               exception left main); or "caller" when the methods are    *)
(*               called directly on the object                             *)
(*   results     per method, the outcome of its latest call                *)
(*   trace       the methods main has called, in order                     *)
(*   failed      the method whose exception left main, or None             *)
(***************************************************************************)
\* analyzer.<method>() in the order main calls them, the reverse of it
main_order_reversed ==
  << "visualize_data", "generate_insights", "top_products", "price_analysis",
     "category_analysis", "summary_statistics" >>

\* analyzer.<method>() in the order main calls them
main_order ==
  << "summary_statistics", "category_analysis", "price_analysis", "top_products",
     "generate_insights", "visualize_data" >>

methods == {main_order[k] : k \in 1..Len(main_order)}

method(op, d) ==
  CASE op = "summary_statistics" -> summary_statistics(d)
    [] op = "category_analysis" -> category_analysis(d)
    [] op = "price_analysis" -> price_analysis(d)
    [] op = "top_products" -> top_products(d)
    [] op = "generate_insights" -> generate_insights(d)
    [] op = "visualize_data" -> visualize_data(d)

not_called == [called |-> FALSE]

\* the generic products handed to the pipeline and to the direct caller
sample_products ==
  { [product_name |-> "Lip Gloss", brand |-> "A", category |-> "Lips",
     price |-> 20, rating |-> 45, num_reviews |-> 100],
    [product_name |-> "Foundation", brand |-> "A", category |-> "Face",
     price |-> 40, rating |-> 45, num_reviews |-> 250],
    [product_name |-> "Night Cream", brand |-> "B", category |-> "Skincare",
     price |-> 55, rating |-> 44, num_reviews |-> 250],
    [product_name |-> "Eyeliner", brand |-> "B", category |-> "Eyes",
     price |-> 30, rating |-> 43, num_reviews |-> 50] }

\* the products handed to top_products: three levels of every criterion
top_sample_products ==
  { [product_name |-> "X", brand |-> "A", category |-> "Face",
     price |-> 40, rating |-> 45, num_reviews |-> 200],
    [product_name |-> "Y", brand |-> "A", category |-> "Lips",
     price |-> 20, rating |-> 44, num_reviews |-> 300],
    [product_name |-> "Z", brand |-> "B", category |-> "Eyes",
     price |-> 40, rating |-> 46, num_reviews |-> 100] }

\* one product of every price from 0 to MaxPrice
priced_product(p) ==
  [product_name |-> "P", brand |-> "A", category |-> "Face",
   price |-> p, rating |-> 45, num_reviews |-> 10]

tables(ps, n) == UNION {[1..k -> ps] : k \in 0..n}

start(inputs, at) ==
  /\ input \in inputs
  /\ data = <<>>
  /\ constructed = 0
  /\ pc = at
  /\ results = [op \in methods |-> not_called]
  /\ trace = <<>>
  /\ failed = None

\* main() on the embedded table or on a generic one
Init == start(tables(sample_products, MaxLen) \cup {products}, "start")

\* the methods called directly, in any order
CallerInit == start(tables(sample_products, MaxLen), "caller")

TopInit == start(tables(top_sample_products, MaxTopLen), "caller")

PriceInit == start({<<priced_product(p)>> : p \in 0..MaxPrice}, "caller")

\* SephoraAnalyzer(): self.data = self.create_sample_data()
SephoraAnalyzer_init ==
  /\ constructed = 0
  /\ pc \in {"start", "caller"}
  /\ data' = create_sample_data(input)
  /\ constructed' = constructed + 1
  /\ pc' = IF pc = "start" THEN main_order[1] ELSE pc
  /\ UNCHANGED <<input, results, trace, failed>>

\* main's position after the k-th call returns
after(k) == IF k < Len(main_order) THEN main_order[k + 1] ELSE "complete"

\* one call analyzer.<main_order[k]>() of main: an exception is not caught,
\* it leaves main and ends the run
main_call(k) ==
  /\ pc = main_order[k]
  /\ LET r == method(main_order[k], data)
     IN /\ data' = r.self_data
        /\ results' = [results EXCEPT ![main_order[k]] =
                         [called |-> TRUE, raised |-> r.raised, report |-> r.report]]
        /\ trace' = Append(trace, main_order[k])
        /\ failed' = IF r.raised = None THEN failed ELSE main_order[k]
        /\ pc' = IF r.raised = None THEN after(k) ELSE "aborted"
  /\ UNCHANGED <<input, constructed>>

main_calls == \E k \in 1..Len(main_order) : main_call(k)

\* the closing prints of main ("ANALYSIS COMPLETE!", the generated files)
main_complete ==
  /\ pc = "complete"
  /\ pc' = "done"
  /\ UNCHANGED <<input, data, constructed, results, trace, failed>>

\* a direct call of one method on the constructed object
call(op) ==
  /\ pc = "caller"
  /\ constructed = 1
  /\ LET r == method(op, data)
     IN /\ data' = r.self_data
        /\ results' = [results EXCEPT ![op] =
                         [called |-> TRUE, raised |-> r.raised, report |-> r.report]]
  /\ UNCHANGED <<input, constructed, pc, trace, failed>>

calls == \E op \in methods : call(op)

call_top_products == call("top_products")

Next == SephoraAnalyzer_init \/ main_calls \/ main_complete

Spec == Init /\ [][Next]_vars

\* main runs to its end: nothing suspends it
FairSpec == Init /\ [][Next]_vars /\ WF_vars(Next)

CallerNext == SephoraAnalyzer_init \/ calls

CallerSpec == CallerInit /\ [][CallerNext]_vars

TopNext == SephoraAnalyzer_init \/ call_top_products

TopSpec == TopInit /\ [][TopNext]_vars

PriceSpec == PriceInit /\ [][SephoraAnalyzer_init]_vars

(***************************************************************************)
(* The claims.                                                             *)
(***************************************************************************)
ran(op) == results[op].called
outcome(op) == results[op]

\* C1 (PriceSpec): every row's price_range is Budget for 0 < price <= 20,
\* Mid-Range for 20 < price <= 40, Premium for 40 < price <= 70 and Luxury
\* for 70 < price <= 200, so 20, 40, 70 and 200 fall in the lower bucket;
\* a price of 0 or above 200 gets the missing-category value NaN, which is
\* none of the four labels.
C1_PriceRangeBuckets ==
  constructed = 1 =>
    /\ Len(data) = Len(input)
    /\ \A i \in 1..Len(data) :
         LET p == input[i].price
             b == data[i].price_range
         IN /\ data[i].price = p
            /\ (0 < p /\ p <= 20) => b = "Budget"
            /\ (20 < p /\ p <= 40) => b = "Mid-Range"
            /\ (40 < p /\ p <= 70) => b = "Premium"
            /\ (70 < p /\ p <= 200) => b = "Luxury"
            /\ (p = 0 \/ p > 200) =>
                 b = NaN /\ b \notin {"Budget", "Mid-Range", "Premium", "Luxury"}

\* C1 witness: a constructed catalog whose product costs exactly 20 and is
\* in the Budget range.
C1_Witness ==
  /\ constructed = 1
  /\ \E i \in 1..Len(data) : data[i].price = 20 /\ data[i].price_range = "Budget"

\* C2 (CallerSpec): once the constructor has built the catalog, no call of
\* any of the six methods, in any order and however often, changes it: the
\* catalog stays the frame the constructor built (same rows, same order,
\* same columns), and a method called again yields the outcome it yielded
\* before.
C2_CatalogImmutable ==
  /\ [](constructed = 1 => data = create_sample_data(input))
  /\ [][constructed = 1 =>
          /\ data' = data
          /\ \A op \in methods : ran(op) => outcome(op)' = outcome(op)]_vars

\* C2 witness: every method has been called on a catalog of the largest
\* size, which is still the one the constructor built.
C2_Witness ==
  /\ constructed = 1
  /\ Len(data) = MaxLen
  /\ \A op \in methods : ran(op)
  /\ \A i \in 1..Len(data) : data[i].product_name = input[i].product_name

\* C3 (Spec), as claimed: when a report of a run raises, the operations that
\* come after it in main are still executed before the run ends.
C3_ContinuesAfterFailure ==
  pc \in {"done", "aborted"} =>
    \A op \in { "summary_statistics", "category_analysis", "price_analysis",
                "top_products", "generate_insights" } :
      (ran(op) /\ outcome(op).raised # None) =>
        \A later \in { "summary_statistics", "category_analysis", "price_analysis",
                       "top_products", "generate_insights", "visualize_data" } :
          ran(later)

\* C4 (Spec), as claimed: generate_insights never raises, and when no
\* product is rated 4.5 or more it reports the modal category as "no data".
C4_InsightsTolerateEmptySubsets ==
  ran("generate_insights") =>
    /\ outcome("generate_insights").raised = None
    /\ (\A i \in 1..Len(data) : data[i].rating < 45) =>
         outcome("generate_insights").report.most_common_category = "no data"

\* C5 (Spec), as claimed: summary_statistics raises EmptyCatalogError
\* on a catalog of zero rows, and on any other catalog it succeeds and
\* reports a count equal to the catalog size.
C5_EmptyCatalogError ==
  ran("summary_statistics") =>
    IF Len(data) = 0
    THEN outcome("summary_statistics").raised = "EmptyCatalogError"
    ELSE /\ outcome("summary_statistics").raised = None
         /\ outcome("summary_statistics").report.count = Len(data)

top_of(report, c) ==
  CASE c = "rating" -> report.top_rated
    [] c = "num_reviews" -> report.most_reviewed
    [] c = "value_score" -> report.best_value

\* C6 (TopSpec): for each of rating, num_reviews and value_score, the five
\* top products are min(5, catalog size) distinct rows of the catalog, in
\* non-increasing order of the criterion; no omitted row has a higher
\* value than a listed one; rows of equal value are listed in catalog
\* order, and of the rows tied at the cut-off the earlier ones are kept.
C6_TopProducts ==
  ran("top_products") =>
    \A c \in {"rating", "num_reviews", "value_score"} :
      LET s == top_of(outcome("top_products").report, c)
          v(i) == data[i][c]
          kept == {s[k] : k \in 1..Len(s)}
      IN /\ Len(s) = (IF Len(data) < 5 THEN Len(data) ELSE 5)
         /\ kept \subseteq 1..Len(data)
         /\ Cardinality(kept) = Len(s)
         /\ \A k \in 1..(Len(s) - 1) :
              /\ ~greater(c, v(s[k + 1]), v(s[k]))
              /\ ~greater(c, v(s[k]), v(s[k + 1])) => s[k] < s[k + 1]
         /\ \A j \in (1..Len(data)) \ kept : \A i \in kept :
              /\ ~greater(c, v(j), v(i))
              /\ ~greater(c, v(i), v(j)) => i < j

\* C6 witness: top_products has run on a catalog of more than five rows in
\* which an omitted row ties on rating with a listed one.
C6_Witness ==
  /\ ran("top_products")
  /\ Len(data) > 5
  /\ \E j \in 1..Len(data) : \E k \in 1..5 :
       /\ \A m \in 1..5 : outcome("top_products").report.top_rated[m] # j
       /\ data[outcome("top_products").report.top_rated[k]].rating = data[j].rating

\* C7 (Spec), as claimed: the most-products category has the largest
\* count and the highest-rated category the highest mean rating, and of
\* several categories tied for a maximum the one that appears first in the
\* catalog is reported.
C7_FirstEncounterTieBreak ==
  (ran("category_analysis") /\ outcome("category_analysis").raised = None) =>
    LET r == outcome("category_analysis").report
        n(c) == Cardinality({i \in 1..Len(data) : data[i].category = c})
        total(c) == seq_sum([i \in 1..Len(data) |->
                               IF data[i].category = c THEN data[i].rating ELSE 0])
        first(c) == CHOOSE i \in 1..Len(data) :
                      data[i].category = c /\ \A j \in 1..(i - 1) : data[j].category # c
    IN /\ \A o \in categories(data) :
            /\ n(r.most_products) >= n(o)
            /\ n(r.most_products) = n(o) => first(r.most_products) <= first(o)
       /\ \A o \in categories(data) :
            /\ total(r.highest_rated) * n(o) >= total(o) * n(r.highest_rated)
            /\ total(r.highest_rated) * n(o) = total(o) * n(r.highest_rated)
                 => first(r.highest_rated) <= first(o)

\* C8 (Spec), as claimed: price_analysis always gives exactly one
\* verdict: weak for |corr| < 0.3, moderate for 0.3 <= |corr| < 0.7, strong
\* for |corr| >= 0.7; the verdict is never absent.
C8_VerdictAlwaysGiven ==
  ran("price_analysis") =>
    LET r == outcome("price_analysis").report.correlation
        v == outcome("price_analysis").report.verdict
    IN /\ v \in {"weak", "moderate", "strong"}
       /\ r.defined =>
            /\ v = "weak" <=> abs_corr_less(r, 3, 10)
            /\ v = "moderate" <=> (~abs_corr_less(r, 3, 10) /\ abs_corr_less(r, 7, 10))
            /\ v = "strong" <=> ~abs_corr_less(r, 7, 10)

\* the summary a run of main prints for the embedded table
embedded_summary == outcome("summary_statistics").report

\* m is sum / count to within half a unit of the hundredths: m = 3958 is a
\* mean that prints as 39.58
rounds_to(sum, count, scale, m) == 2 * abs(100 * sum - m * scale * count) <= scale * count

\* C9 (Spec), as claimed: on the embedded table, of 39 rows,
\* summary_statistics reports a mean price of about 38.97, a mean rating of
\* about 4.46 and The Ordinary Serum (price 7, rating 4.4, value score about
\* 6.29, the maximum of all rows) as the best-value product.
C9_EmbeddedSummaryAsClaimed ==
  (input = products /\ ran("summary_statistics")) =>
    /\ embedded_summary.count = 39
    /\ rounds_to(embedded_summary.price_mean.sum, embedded_summary.price_mean.count, 1, 3897)
    /\ rounds_to(embedded_summary.rating_mean.sum, embedded_summary.rating_mean.count, 10, 446)
    /\ embedded_summary.best_value.product_name = "The Ordinary Serum"

\* C9 (Spec), amended: on the embedded table, of 40 rows, summary_statistics
\* reports a mean price of 39.575 (about 39.58), a mean rating of 4.455
\* (about 4.46) and The Ordinary Serum (price 7, rating 4.4, value score
\* about 6.29, the maximum of all rows) as the best-value product.
C9_EmbeddedSummary ==
  (input = products /\ ran("summary_statistics")) =>
    /\ outcome("summary_statistics").raised = None
    /\ embedded_summary.count = 40
    /\ Len(data) = 40
    /\ 1000 * embedded_summary.price_mean.sum = 39575 * embedded_summary.price_mean.count
    /\ rounds_to(embedded_summary.price_mean.sum, embedded_summary.price_mean.count, 1, 3958)
    /\ 100 * embedded_summary.rating_mean.sum = 4455 * embedded_summary.rating_mean.count
    /\ rounds_to(embedded_summary.rating_mean.sum, embedded_summary.rating_mean.count, 10, 446)
    /\ embedded_summary.best_value.product_name = "The Ordinary Serum"
    /\ embedded_summary.best_value.price = 7
    /\ embedded_summary.best_value.rating = 44
    /\ rounds_to(embedded_summary.best_value.value_score.num,
                 embedded_summary.best_value.value_score.den, 1, 629)
    /\ \A i \in 1..Len(data) :
         ~greater("value_score", data[i].value_score, embedded_summary.best_value.value_score)

\* C9 witness: summary_statistics has run on the embedded table.
C9_Witness ==
  /\ input = products
  /\ ran("summary_statistics")
  /\ embedded_summary.best_value.product_name = "The Ordinary Serum"

\* C10 (FairSpec): a run of main is a linear pipeline. The catalog is
\* constructed once, before any report; the reports run in the order
\* summary_statistics, category_analysis, price_analysis, top_products,
\* generate_insights, and visualize_data only after all five have completed;
\* the closing message comes only after the five chart files were saved,
\* each once, in their fixed order; and every run either has a failing
\* operation or reaches the end of main.
C10_LinearPipeline ==
  /\ [](/\ constructed <= 1
        /\ trace # <<>> => constructed = 1
        /\ Len(trace) <= 6
        /\ \A k \in 1..Len(trace) :
             trace[k] = << "summary_statistics", "category_analysis", "price_analysis",
                           "top_products", "generate_insights", "visualize_data" >>[k]
        /\ \A k \in 1..Len(trace) : ran(trace[k])
        /\ \A k \in 1..(Len(trace) - 1) : outcome(trace[k]).raised = None
        /\ \A op \in methods : ran(op) => \E k \in 1..Len(trace) : trace[k] = op
        /\ pc \in {"complete", "done"} =>
             /\ failed = None
             /\ Len(trace) = 6
             /\ outcome("visualize_data").raised = None
             /\ outcome("visualize_data").report.saved =
                  << "sephora_price_by_category.png", "sephora_rating_vs_price.png",
                     "sephora_price_distribution.png", "sephora_top_brands.png",
                     "sephora_category_heatmap.png" >>)
  /\ <>(pc = "done" \/ failed # None)

\* C10 witness: main has reached its end on the embedded table, the six
\* methods called and the five files saved.
C10_Witness ==
  /\ pc = "done"
  /\ input = products
  /\ Len(trace) = 6
  /\ Len(outcome("visualize_data").report.saved) = 5

====
